---------------------------- MODULE Spec2Model ----------------------------
(***************************************************************************)
(* Model of src/src/side_offsets.rs: TypedSideOffsets2D<T, U>, a group of  *)
(* four side offsets (top, right, bottom, left) over a scalar type T,      *)
(* with its constructors, typed accessors, sums, addition and Debug text.  *)
(*                                                                         *)
(* The scalar type T is instantiated as i8, a fixed-width integer.  Its +  *)
(* is the only operation of the file that can fail: when a sum leaves the  *)
(* range of T the program panics if it was built with overflow checks      *)
(* (the debug default) and wraps if it was built without them.  Which of   *)
(* the two builds runs is drawn in the initial states (overflow_checks).   *)
(* An operation that adds returns an outcome: Returned(value) or Panicked. *)
(*                                                                         *)
(* The unit tag U is a PhantomData and has no runtime value.  Length<T, U> *)
(* (length.rs, not part of the source file) is the one-field tuple struct  *)
(* the file uses through Length::new, Length::get and Into<Length<T, U>>.  *)
(*                                                                         *)
(* All operations are pure functions of values, so each specification      *)
(* draws the inputs in its initial states and its actions apply the        *)
(* operations, recording the operation in op and its result in self (for   *)
(* constructors) or out (for everything else).                             *)
(***************************************************************************)
EXTENDS Integers, Sequences, FiniteSets

VARIABLES
    overflow_checks,  \* TRUE: built with overflow checks, + panics on overflow
    args,   \* inputs of the constructors: [form, a, b, c, d]
    self,   \* the aggregate the methods are called on
    other,  \* right operand of add
    third,  \* third operand, for the grouping of additions
    op,     \* name of the last operation called
    out,    \* value returned by the last non-constructor operation
    n       \* number of additions of zero() made so far

vars == <<overflow_checks, args, self, other, third, op, out, n>>

---------------------------------------------------------------------------
(* Bounds *)

\* Scalars passed to the constructors range over -1..MaxScalar, besides the
\* documented examples and the ends of T's range.
MaxScalar == 4

\* Sides of the operands of a single addition range over -1..MaxOperand,
\* besides the documented examples and the ends of T's range.
MaxOperand == 1

\* Sides of the three operands of grouped additions range over
\* -1..MaxGrouped, besides the ends of T's range.
MaxGrouped == 0

\* Longest sequence of additions of zero().
MaxZeroAdds == 3

Scalars == -1..MaxScalar

\* The two shapes of N: Into<Length<T, U>>: a bare scalar T or a Length<T, U>.
Forms == {"scalar", "length"}

---------------------------------------------------------------------------
(* Collaborators: the scalar type and Length<T, U> *)

\* The width of T = i8.
T_BITS == 8

T_MIN == -(2 ^ (T_BITS - 1))

T_MAX == (2 ^ (T_BITS - 1)) - 1

\* T::zero()
T_zero == 0

\* The two's complement value of a sum that left the range of T.
Wrap(s) == ((s - T_MIN) % (2 ^ T_BITS)) + T_MIN

\* An operation that came back with a value.
Returned(v) == [panicked |-> FALSE, value |-> <<v>>]

\* An operation that panicked ('attempt to add with overflow'): no value.
Panicked == [panicked |-> TRUE, value |-> <<>>]

\* T: Add<T, Output = T>, for T = i8: the sum when it is in range; otherwise
\* a panic with overflow checks and the wrapped sum without.
T_add(a, b) ==
    LET s == a + b
    IN  IF s >= T_MIN /\ s <= T_MAX THEN Returned(s)
        ELSE IF overflow_checks THEN Panicked
        ELSE Returned(Wrap(s))

DigitChars == <<"0", "1", "2", "3", "4", "5", "6", "7", "8", "9">>

RECURSIVE Digits(_)
Digits(v) ==
    IF v < 10 THEN <<DigitChars[v + 1]>>
    ELSE Digits(v \div 10) \o <<DigitChars[(v % 10) + 1]>>

\* {:?} of an integer scalar: decimal digits, with a leading '-' when negative.
T_Debug(v) == IF v < 0 THEN <<"-">> \o Digits(-v) ELSE Digits(v)

\* Length::new(x): the tuple struct Length(x, PhantomData).
Length_new(x) == <<x>>

\* Length::get(self): the wrapped scalar.
Length_get(l) == l[1]

\* A value of type N = T.
N_scalar(v) == [form |-> "scalar", raw |-> v]

\* A value of type N = Length<T, U>.
N_length(v) == [form |-> "length", len |-> Length_new(v)]

N_of(form, v) == IF form = "scalar" THEN N_scalar(v) ELSE N_length(v)

\* N::into(): a Length stays as it is, a scalar is wrapped.
Into(x) == IF x.form = "length" THEN x.len ELSE Length_new(x.raw)

---------------------------------------------------------------------------
(* TypedSideOffsets2D *)

\* The struct: four scalar fields (_unit: PhantomData carries no data).
TypedSideOffsets2D(t, r, b, l) == [top |-> t, right |-> r, bottom |-> b, left |-> l]

newSwapped(top, right, bottom, left) ==
    TypedSideOffsets2D(Length_get(Into(top)), Length_get(Into(left)),
                       Length_get(Into(bottom)), Length_get(Into(right)))

new(top, right, bottom, left) ==
    TypedSideOffsets2D(Length_get(Into(top)), Length_get(Into(right)),
                       Length_get(Into(bottom)), Length_get(Into(left)))

fmtSpaced(s) ==
    <<"(">> \o T_Debug(s.top) \o <<",", " ">> \o T_Debug(s.right) \o <<",", " ">>
            \o T_Debug(s.bottom) \o <<",", " ">> \o T_Debug(s.left) \o <<")">>

\* impl fmt::Debug: "({:?},{:?},{:?},{:?})" of top, right, bottom, left,
\* as the sequence of its characters.
fmt(s) ==
    <<"(">> \o T_Debug(s.top) \o <<",">> \o T_Debug(s.right) \o <<",">>
            \o T_Debug(s.bottom) \o <<",">> \o T_Debug(s.left) \o <<")">>

top_typed(s) == Length_new(s.top)

right_typed(s) == Length_new(s.right)

bottom_typed(s) == Length_new(s.bottom)

left_typedOfRight(s) == Length_new(s.right)

left_typed(s) == Length_new(s.left)

new_all_sameButLeft(all) ==
    LET v == Length_get(Into(all))
    IN  new(N_scalar(v), N_scalar(v), N_scalar(v), N_scalar(T_zero))

new_all_same(all) ==
    LET v == Length_get(Into(all))
    IN  new(N_scalar(v), N_scalar(v), N_scalar(v), N_scalar(v))

horizontalOfVertical(s) == T_add(s.top, s.bottom)

\* An outcome: self.left + self.right may panic.
horizontal(s) == T_add(s.left, s.right)

\* An outcome: self.top + self.bottom may panic.
vertical(s) == T_add(s.top, s.bottom)

\* Length::new(self.horizontal()): a panic of horizontal() is the panic of
\* the call, and no Length is built.
horizontal_typed(s) ==
    LET r == horizontal(s)
    IN  IF r.panicked THEN Panicked ELSE Returned(Length_new(r.value[1]))

vertical_typedOfHorizontal(s) ==
    LET r == horizontal(s)
    IN  IF r.panicked THEN Panicked ELSE Returned(Length_new(r.value[1]))

vertical_typed(s) ==
    LET r == vertical(s)
    IN  IF r.panicked THEN Panicked ELSE Returned(Length_new(r.value[1]))

\* new(t, r, b, l) of four sums, its arguments evaluated before the call: a
\* sum that panics is the panic of the whole expression.
NewOfSums(t, r, b, l) ==
    IF t.panicked \/ r.panicked \/ b.panicked \/ l.panicked THEN Panicked
    ELSE Returned(new(N_scalar(t.value[1]), N_scalar(r.value[1]),
                      N_scalar(b.value[1]), N_scalar(l.value[1])))

addWrongBottom(a, b) ==
    NewOfSums(T_add(a.top, b.top), T_add(a.right, b.right),
              T_add(a.bottom, b.top), T_add(a.left, b.left))

addKeepsLeft(a, b) ==
    NewOfSums(T_add(a.top, b.top), T_add(a.right, b.right),
              T_add(a.bottom, b.bottom), Returned(a.left))

\* impl Add: a is self, b is other.
add(a, b) ==
    NewOfSums(T_add(a.top, b.top), T_add(a.right, b.right),
              T_add(a.bottom, b.bottom), T_add(a.left, b.left))

zeroButTop ==
    new(N_scalar(1), N_scalar(T_zero), N_scalar(T_zero), N_scalar(T_zero))

zeroAllOnes == new(N_scalar(1), N_scalar(1), N_scalar(1), N_scalar(1))

zero == new(N_scalar(T_zero), N_scalar(T_zero), N_scalar(T_zero), N_scalar(T_zero))

---------------------------------------------------------------------------
(* Inputs *)

NoArgs == [form |-> "scalar", a |-> T_zero, b |-> T_zero, c |-> T_zero, d |-> T_zero]

NoOut == <<>>

\* Argument lists besides the bounded combinations: the documented examples
\* new(10, 20, 30, 40) and new_all_same(5), and lists that reach the ends of
\* T's range, whose sums overflow.
ExtraArgs ==
    {<<10, 20, 30, 40>>, <<5, 5, 5, 5>>,
     <<0, 28, 0, 100>>, <<100, 0, 28, 0>>,
     <<T_MAX, T_MIN, 1, -1>>, <<T_MIN, -1, -1, T_MIN>>,
     <<T_MAX, T_MAX, T_MAX, T_MAX>>, <<T_MIN, T_MIN, T_MIN, T_MIN>>}

ConstructorArgs ==
    [form : Forms, a : Scalars, b : Scalars, c : Scalars, d : Scalars]
    \cup {[form |-> f, a |-> x[1], b |-> x[2], c |-> x[3], d |-> x[4]] :
             f \in Forms, x \in ExtraArgs}

Aggregates(S) == {TypedSideOffsets2D(t, r, b, l) : t \in S, r \in S, b \in S, l \in S}

\* Aggregates with sides at the ends of T's range: adding them overflows.
Extremes ==
    {TypedSideOffsets2D(T_MAX, 0, 0, 0),
     TypedSideOffsets2D(0, 0, T_MIN, 0),
     TypedSideOffsets2D(T_MIN, T_MAX, -1, 0),
     TypedSideOffsets2D(-1, 0, T_MAX, T_MIN)}

\* The operands of one addition: every combination of the bounded sides, the
\* operands of the documented example new(10, 20, 30, 40) + new(1, 1, 1, 1),
\* and the extremes.
Operands ==
    Aggregates(-1..MaxOperand) \cup {TypedSideOffsets2D(10, 20, 30, 40)}
    \cup Extremes

\* The operands of grouped additions.
Grouped == Aggregates(-1..MaxGrouped) \cup Extremes

---------------------------------------------------------------------------
(* Spec: constructors and the methods of one aggregate *)

Init ==
    /\ overflow_checks \in BOOLEAN
    /\ args \in ConstructorArgs
    /\ self = zero
    /\ other = zero
    /\ third = zero
    /\ op = "init"
    /\ out = NoOut
    /\ n = 0

CallNew ==
    /\ self' = new(N_of(args.form, args.a), N_of(args.form, args.b),
                   N_of(args.form, args.c), N_of(args.form, args.d))
    /\ op' = "new"
    /\ out' = NoOut
    /\ UNCHANGED <<overflow_checks, args, other, third, n>>

CallNewAllSame ==
    /\ self' = new_all_same(N_of(args.form, args.a))
    /\ op' = "new_all_same"
    /\ out' = NoOut
    /\ UNCHANGED <<overflow_checks, args, other, third, n>>

CallZero ==
    /\ self' = zero
    /\ op' = "zero"
    /\ out' = NoOut
    /\ UNCHANGED <<overflow_checks, args, other, third, n>>

\* A method taking &self and returning a value (or panicking).
Method(name, result) ==
    /\ op' = name
    /\ out' = result
    /\ UNCHANGED <<overflow_checks, args, self, other, third, n>>

CallTopTyped == Method("top_typed", top_typed(self))

CallRightTyped == Method("right_typed", right_typed(self))

CallBottomTyped == Method("bottom_typed", bottom_typed(self))

CallLeftTyped == Method("left_typed", left_typed(self))

CallHorizontal == Method("horizontal", horizontal(self))

CallVertical == Method("vertical", vertical(self))

CallHorizontalTyped == Method("horizontal_typed", horizontal_typed(self))

CallVerticalTyped == Method("vertical_typed", vertical_typed(self))

CallFmt == Method("fmt", fmt(self))

Next ==
    \/ CallNew
    \/ CallNewAllSame
    \/ CallZero
    \/ CallTopTyped
    \/ CallRightTyped
    \/ CallBottomTyped
    \/ CallLeftTyped
    \/ CallHorizontal
    \/ CallVertical
    \/ CallHorizontalTyped
    \/ CallVerticalTyped
    \/ CallFmt

Spec == Init /\ [][Next]_vars

---------------------------------------------------------------------------
(* SpecAdd: one addition of two aggregates *)

InitAdd ==
    /\ overflow_checks \in BOOLEAN
    /\ args = NoArgs
    /\ self \in Operands
    /\ other \in Operands
    /\ third = zero
    /\ op = "init"
    /\ out = NoOut
    /\ n = 0

\* self + other
CallAdd == Method("add", add(self, other))

NextAdd == CallAdd

SpecAdd == InitAdd /\ [][NextAdd]_vars

---------------------------------------------------------------------------
(* SpecAlgebra: both orders of one addition, both groupings of two *)

InitAlgebra ==
    /\ overflow_checks \in BOOLEAN
    /\ args = NoArgs
    /\ self \in Grouped
    /\ other \in Grouped
    /\ third \in Grouped
    /\ op = "init"
    /\ out = NoOut
    /\ n = 0

\* r + b, where r is the outcome of an earlier addition: its panic stands.
AddToOutcome(r, b) == IF r.panicked THEN Panicked ELSE add(r.value[1], b)

\* a + r, where r is the outcome of an earlier addition: its panic stands.
AddOutcome(a, r) == IF r.panicked THEN Panicked ELSE add(a, r.value[1])

\* self + other and other + self, evaluated once on the drawn operands
CallCommute ==
    /\ op = "init"
    /\ Method("commute", [lhs |-> add(self, other), rhs |-> add(other, self)])

\* (self + other) + third and self + (other + third), evaluated once on the
\* drawn operands
CallAssociate ==
    /\ op = "init"
    /\ Method("associate", [lhs |-> AddToOutcome(add(self, other), third),
                            rhs |-> AddOutcome(self, add(other, third))])

NextAlgebra ==
    \/ CallCommute
    \/ CallAssociate

SpecAlgebra == InitAlgebra /\ [][NextAlgebra]_vars

---------------------------------------------------------------------------
(* SpecZero: sequences of additions of zero() to a constructed aggregate *)

InitZero ==
    /\ overflow_checks \in BOOLEAN
    /\ args \in ConstructorArgs
    /\ self = new(N_of(args.form, args.a), N_of(args.form, args.b),
                  N_of(args.form, args.c), N_of(args.form, args.d))
    /\ other = zero
    /\ third = zero
    /\ op = "new"
    /\ out = NoOut
    /\ n = 0

\* self = r, the outcome of an addition; a panic ends the program, with self
\* as it was.
Assign(name, r) ==
    /\ self' = IF r.panicked THEN self ELSE r.value[1]
    /\ op' = IF r.panicked THEN "panic" ELSE name
    /\ n' = n + 1
    /\ UNCHANGED <<overflow_checks, args, other, third, out>>

\* self = self + zero()
CallAddZeroRight ==
    /\ op # "panic"
    /\ n < MaxZeroAdds
    /\ Assign("add_zero_right", add(self, zero))

\* self = zero() + self
CallAddZeroLeft ==
    /\ op # "panic"
    /\ n < MaxZeroAdds
    /\ Assign("add_zero_left", add(zero, self))

NextZero ==
    \/ CallAddZeroRight
    \/ CallAddZeroLeft

SpecZero == InitZero /\ [][NextZero]_vars

---------------------------------------------------------------------------
(* Properties *)

\* The sum a + b as a mathematical integer leaves the range of T.
Overflows(a, b) == a + b < T_MIN \/ a + b > T_MAX

\* The value of T congruent to a + b modulo 2^T_BITS: a + b itself when it is
\* in range.
SumInT(a, b) == CHOOSE v \in T_MIN..T_MAX : (v - (a + b)) % (2 ^ T_BITS) = 0

\* C1: new(a, b, c, d) has top = a, right = b, bottom = c and left = d,
\* whether the arguments are scalars or lengths: no swap, no change of value.
C1_NewMapsArguments ==
    op = "new" =>
        /\ self.top = args.a
        /\ self.right = args.b
        /\ self.bottom = args.c
        /\ self.left = args.d

C1_Witness ==
    /\ op = "new"
    /\ args.form = "length"
    /\ <<args.a, args.b, args.c, args.d>> = <<1, 2, 3, 4>>
    /\ <<self.top, self.right, self.bottom, self.left>> = <<1, 2, 3, 4>>

\* C2: every side of self + other is the sum, in T, of the corresponding
\* sides of self and other: the plain sum when it is in range and the wrapped
\* sum otherwise; the addition panics, returning nothing, exactly when a
\* side's sum overflows in a build with overflow checks.
C2_AddIsElementwise ==
    op = "add" =>
        LET ov == \/ Overflows(self.top, other.top)
                  \/ Overflows(self.right, other.right)
                  \/ Overflows(self.bottom, other.bottom)
                  \/ Overflows(self.left, other.left)
        IN  /\ out.panicked <=> (overflow_checks /\ ov)
            /\ ~out.panicked =>
                  /\ out.value[1].top = SumInT(self.top, other.top)
                  /\ out.value[1].right = SumInT(self.right, other.right)
                  /\ out.value[1].bottom = SumInT(self.bottom, other.bottom)
                  /\ out.value[1].left = SumInT(self.left, other.left)
            /\ ~ov =>
                  /\ out.value[1].top = self.top + other.top
                  /\ out.value[1].right = self.right + other.right
                  /\ out.value[1].bottom = self.bottom + other.bottom
                  /\ out.value[1].left = self.left + other.left
            /\ (self = TypedSideOffsets2D(10, 20, 30, 40)
                    /\ other = TypedSideOffsets2D(1, 1, 1, 1))
                  => out = Returned(TypedSideOffsets2D(11, 21, 31, 41))

C2_Witness ==
    /\ op = "add"
    /\ ~overflow_checks
    /\ self = TypedSideOffsets2D(T_MAX, 0, 0, 0)
    /\ other = TypedSideOffsets2D(1, 0, -1, 1)
    /\ out = Returned(TypedSideOffsets2D(T_MIN, 0, -1, 1))

\* C3: horizontal() is left + right and vertical() is top + bottom, the sums
\* being those of T (a panic exactly when the sum overflows in a build with
\* overflow checks, the wrapped sum in a build without).
C3_HorizontalVertical ==
    /\ op = "horizontal" =>
          /\ out.panicked <=> (overflow_checks /\ Overflows(self.left, self.right))
          /\ ~out.panicked => out.value[1] = SumInT(self.left, self.right)
          /\ ~Overflows(self.left, self.right)
                => out.value[1] = self.left + self.right
    /\ op = "vertical" =>
          /\ out.panicked <=> (overflow_checks /\ Overflows(self.top, self.bottom))
          /\ ~out.panicked => out.value[1] = SumInT(self.top, self.bottom)
          /\ ~Overflows(self.top, self.bottom)
                => out.value[1] = self.top + self.bottom
    /\ (op = "horizontal" /\ self = TypedSideOffsets2D(10, 20, 30, 40))
          => out = Returned(60)
    /\ (op = "vertical" /\ self = TypedSideOffsets2D(10, 20, 30, 40))
          => out = Returned(40)
    /\ (op = "horizontal" /\ self = TypedSideOffsets2D(5, 5, 5, 5))
          => out = Returned(10)

C3_Witness ==
    /\ op = "horizontal"
    /\ self = TypedSideOffsets2D(10, 20, 30, 40)
    /\ out = Returned(60)

\* C4: new_all_same(v) equals new(v, v, v, v): all four sides are v.
C4_NewAllSame ==
    op = "new_all_same" =>
        /\ self = new(N_of(args.form, args.a), N_of(args.form, args.a),
                      N_of(args.form, args.a), N_of(args.form, args.a))
        /\ self.top = args.a
        /\ self.right = args.a
        /\ self.bottom = args.a
        /\ self.left = args.a
        /\ args.a = 5 => self = TypedSideOffsets2D(5, 5, 5, 5)

C4_Witness ==
    /\ op = "new_all_same"
    /\ args.form = "length"
    /\ args.a = 4
    /\ self = TypedSideOffsets2D(4, 4, 4, 4)

\* C5: zero() equals new(0, 0, 0, 0): all four sides are the scalar zero.
C5_ZeroIsAllZero ==
    op = "zero" =>
        /\ self = new(N_scalar(0), N_scalar(0), N_scalar(0), N_scalar(0))
        /\ self.top = 0
        /\ self.right = 0
        /\ self.bottom = 0
        /\ self.left = 0

C5_Witness ==
    /\ op = "zero"
    /\ args.a = 3
    /\ self = TypedSideOffsets2D(0, 0, 0, 0)

\* C6: for each side, get() of the typed accessor's result is the raw field,
\* and calling the accessor leaves the aggregate unchanged.
C6_TypedRoundTrip ==
    [][/\ op' = "top_typed" => (Length_get(out') = self.top /\ self' = self)
       /\ op' = "right_typed" => (Length_get(out') = self.right /\ self' = self)
       /\ op' = "bottom_typed" => (Length_get(out') = self.bottom /\ self' = self)
       /\ op' = "left_typed" => (Length_get(out') = self.left /\ self' = self)]_vars

C6_Witness ==
    /\ op = "left_typed"
    /\ self = TypedSideOffsets2D(1, 2, 3, 4)
    /\ Length_get(out) = 4

\* C7: over a scalar type whose addition is commutative and associative,
\* addition of aggregates is commutative and associative.  The + of T is
\* commutative in both builds (X + Y and Y + X return the same aggregate or
\* both panic).  It is associative in the build without overflow checks,
\* where it wraps and never panics: there (X + Y) + Z = X + (Y + Z).  With
\* overflow checks + is partial and not associative (one grouping may panic
\* where the other returns): there the groupings agree whenever both return.
C7_AddCommutesAssociates ==
    /\ op = "commute" => out.lhs = out.rhs
    /\ (op = "associate" /\ ~overflow_checks) =>
          /\ ~out.lhs.panicked
          /\ ~out.rhs.panicked
          /\ out.lhs = out.rhs
    /\ (op = "associate" /\ ~out.lhs.panicked /\ ~out.rhs.panicked) =>
          out.lhs = out.rhs

C7_Witness ==
    /\ op = "associate"
    /\ ~overflow_checks
    /\ self = TypedSideOffsets2D(T_MIN, T_MAX, -1, 0)
    /\ other = TypedSideOffsets2D(-1, 0, T_MAX, T_MIN)
    /\ third = TypedSideOffsets2D(T_MAX, 0, 0, 0)
    /\ out.lhs = Returned(TypedSideOffsets2D(-2, T_MAX, T_MAX - 1, T_MIN))
    /\ out.rhs = Returned(TypedSideOffsets2D(-2, T_MAX, T_MAX - 1, T_MIN))

\* C8: horizontal_typed() and vertical_typed() carry the sums of horizontal()
\* and vertical(): they panic exactly when those do, and otherwise get() of
\* their result is the raw sum.
C8_TypedSums ==
    /\ op = "horizontal_typed" =>
          /\ out.panicked = horizontal(self).panicked
          /\ ~out.panicked => Length_get(out.value[1]) = horizontal(self).value[1]
    /\ op = "vertical_typed" =>
          /\ out.panicked = vertical(self).panicked
          /\ ~out.panicked => Length_get(out.value[1]) = vertical(self).value[1]

C8_Witness ==
    /\ op = "vertical_typed"
    /\ self = TypedSideOffsets2D(1, 2, 3, 4)
    /\ ~out.panicked
    /\ Length_get(out.value[1]) = 4

\* C9: the debug text is "(" top "," right "," bottom "," left ")", with no
\* spaces; new(1, 2, 3, 4) renders as (1,2,3,4).
C9_DebugText ==
    op = "fmt" =>
        /\ out = <<"(">> \o T_Debug(self.top) \o <<",">> \o T_Debug(self.right)
                 \o <<",">> \o T_Debug(self.bottom) \o <<",">>
                 \o T_Debug(self.left) \o <<")">>
        /\ \A i \in 1..Len(out) : out[i] # " "
        /\ self = TypedSideOffsets2D(1, 2, 3, 4)
              => out = <<"(", "1", ",", "2", ",", "3", ",", "4", ")">>
        /\ self = TypedSideOffsets2D(-1, 0, 4, -1)
              => out = <<"(", "-", "1", ",", "0", ",", "4", ",", "-", "1", ")">>
        /\ self = TypedSideOffsets2D(10, 20, 30, 40)
              => out = <<"(", "1", "0", ",", "2", "0", ",", "3", "0", ",", "4", "0", ")">>

C9_Witness ==
    /\ op = "fmt"
    /\ self = TypedSideOffsets2D(1, 2, 3, 4)
    /\ out = <<"(", "1", ",", "2", ",", "3", ",", "4", ")">>

\* C10: zero() is the two-sided identity of addition: any sequence of
\* X = X + zero() and X = zero() + X never panics, in either build, and
\* leaves X with the sides it was built with, the ends of T's range included.
C10_ZeroIsIdentity ==
    n > 0 =>
        /\ op \in {"add_zero_right", "add_zero_left"}
        /\ self.top = args.a
        /\ self.right = args.b
        /\ self.bottom = args.c
        /\ self.left = args.d

C10_Witness ==
    /\ op = "add_zero_left"
    /\ overflow_checks
    /\ n = 3
    /\ self = TypedSideOffsets2D(T_MAX, T_MIN, 1, -1)

=============================================================================
